---- MODULE Spec2Model ----
(***************************************************************************)
(* Model of concert's certs.go: domain-set construction, the issuance and  *)
(* renewal orchestrators (genCerts, renewCerts) against an ACME client,    *)
(* and the three-file certificate store (saveCerts, loadCert,              *)
(* loadCertMeta, isCertAvailable).                                         *)
(*                                                                         *)
(* Strings are sequences of one-character strings.  Byte contents are      *)
(* pairs <<kind, n>>.  Every orchestrator call is a little process: pc[p]  *)
(* is its position in the function body, calls[p] the CA-client operations *)
(* it has performed so far in the current call, ret[p] what it returned.   *)
(***************************************************************************)
EXTENDS Integers, Sequences, FiniteSets, TLC

VARIABLES dir, bytesInJSON, pc, in, loc, calls, ret

vars == <<dir, bytesInJSON, pc, in, loc, calls, ret>>

(***************************************************************************)
(* Bounds                                                                  *)
(***************************************************************************)
MaxDomLen == 5
MaxSubs == 2
MaxHostLen == 3

\* Two concurrent invocations on one certificate directory.
Procs == {1, 2}

(***************************************************************************)
(* Strings                                                                 *)
(***************************************************************************)
DomainChars == {"a", "."}
SubNames == {<<"w">>, <<"x">>}

StringsUpTo(chars, n) == UNION {[1..k -> chars] : k \in 0..n}

ListsUpTo(S, n) == UNION {[1..k -> S] : k \in 0..n}

Range(s) == {s[i] : i \in 1..Len(s)}

\* strings.Split(s, sep) for a one-character sep: the pieces between the
\* separators, empty pieces included, found separator by separator from
\* position `start` on.
RECURSIVE SplitFrom(_, _, _)
SplitFrom(s, sep, start) ==
    LET seps == {i \in start..Len(s) : s[i] = sep} IN
    IF seps = {} THEN <<SubSeq(s, start, Len(s))>>
    ELSE LET next == CHOOSE i \in seps : \A j \in seps : i <= j IN
         <<SubSeq(s, start, next - 1)>> \o SplitFrom(s, sep, next + 1)

Split(s, sep) == SplitFrom(s, sep, 1)

isSubDomain_ge2(domain) == Len(Split(domain, ".")) >= 2

isSubDomain(domain) == Len(Split(domain, ".")) > 2

\* genCerts, lines 117-122: the primary, then subDomain + "." + domain for
\* each subdomain in order, unless the primary is a subdomain itself.
RECURSIVE AppendSubDomains(_, _, _, _)
AppendSubDomains(domains, subDomains, domain, i) ==
    IF i > Len(subDomains) THEN domains
    ELSE AppendSubDomains(Append(domains, subDomains[i] \o <<".">> \o domain),
                          subDomains, domain, i + 1)

DomainSet(domain, subDomains) ==
    IF ~isSubDomain(domain)
    THEN AppendSubDomains(<<domain>>, subDomains, domain, 1)
    ELSE <<domain>>

(***************************************************************************)
(* Byte contents, certificate resources, errors                            *)
(***************************************************************************)
NoBytes == <<"empty", 0>>

\* A PEM certificate whose NotAfter lies h hours after time.Now().
Pem(h) == <<"pem", h>>

Key(n) == <<"key", n>>

NoMeta == <<"meta", 0>>

Meta(n) == <<"meta", n>>

\* acme.CertificateResource{}
EmptyRes == [Certificate |-> NoBytes, PrivateKey |-> NoBytes, meta |-> NoMeta]

Nil == [kind |-> "nil"]

Err(k) == [kind |-> k]

NoRet ==
    [res |-> EmptyRes, err |-> Err("none"), bytes |-> NoBytes, avail |-> FALSE,
     valid |-> FALSE]

Causes == {"c1", "c2"}

\* What the CA client may hand back from ObtainCertificate.
IssuedResources ==
    {EmptyRes, [Certificate |-> Pem(2160), PrivateKey |-> Key(1), meta |-> Meta(1)]}

\* One CA-client operation in a call's log: its name, whether it succeeded,
\* and for ObtainCertificate the domains submitted and the failure map and
\* resource returned, for RenewCertificate the renewal reference (ref).
Call(op, ok) ==
    [op |-> op, ok |-> ok, domains |-> <<>>, failures |-> <<>>,
     res |-> EmptyRes, ref |-> EmptyRes]

Ops(log) == {log[i].op : i \in 1..Len(log)}

\* What the call before the current one was, for a caller that makes one
\* call after another: its operation, its resource argument, and whether it
\* returned without error.
NoAfter == [op |-> "none", cert |-> EmptyRes, ok |-> FALSE]

NoIn == [op |-> "none", domain |-> <<>>, subDomains |-> <<>>, cert |-> EmptyRes,
         after |-> NoAfter]

NoLoc == [certBytes |-> NoBytes, certMeta |-> EmptyRes, expTimeDays |-> 0]

Perms(S) == {s \in [1..Cardinality(S) -> S] : Range(s) = S}

\* Leave the function: the call of process p returns (res, err).
Return(p, res, err) ==
    /\ pc' = [pc EXCEPT ![p] = "ret"]
    /\ ret' = [ret EXCEPT ![p] = [NoRet EXCEPT !.res = res, !.err = err]]

Goto(p, label) ==
    /\ pc' = [pc EXCEPT ![p] = label]
    /\ ret' = ret

Log(p, entry) == calls' = [calls EXCEPT ![p] = Append(@, entry)]

(***************************************************************************)
(* genCerts                                                                *)
(***************************************************************************)
TypeOK ==
    /\ bytesInJSON \in BOOLEAN
    /\ DOMAIN pc = Procs
    /\ DOMAIN calls = Procs

Init ==
    /\ dir = [crt |-> <<"nofile", 0>>, key |-> <<"nofile", 0>>, json |-> <<"nofile", 0>>]
    /\ bytesInJSON \in BOOLEAN
    /\ pc = [p \in Procs |-> "idle"]
    /\ in = [p \in Procs |-> NoIn]
    /\ loc = [p \in Procs |-> NoLoc]
    /\ calls = [p \in Procs |-> <<>>]
    /\ ret = [p \in Procs |-> NoRet]

\* Process p is between calls: it has made none yet, or its last one returned.
Free(p) == pc[p] \in {"idle", "ret"}

\* Process p enters a function body at `label` with arguments `args`; the
\* locals, the call log and the result of its previous call are gone.
Enter(p, label, args) ==
    /\ pc' = [pc EXCEPT ![p] = label]
    /\ in' = [in EXCEPT ![p] = args]
    /\ loc' = [loc EXCEPT ![p] = NoLoc]
    /\ calls' = [calls EXCEPT ![p] = <<>>]
    /\ ret' = [ret EXCEPT ![p] = NoRet]

\* A caller invokes genCerts(email, domain, subDomains) with a primary of
\* `primaries` and a subdomain list of `subLists`.
GenCallOf(p, primaries, subLists) ==
    /\ pc[p] = "idle"
    /\ \E domain \in primaries, subDomains \in subLists :
          Enter(p, "gen_key", [NoIn EXCEPT !.op = "genCerts", !.domain = domain,
                                          !.subDomains = subDomains])
    /\ UNCHANGED <<dir, bytesInJSON>>

GenCall(p) ==
    GenCallOf(p, StringsUpTo(DomainChars, MaxDomLen), ListsUpTo(SubNames, MaxSubs))

\* rsa.GenerateKey
GenKey(p) ==
    /\ pc[p] = "gen_key"
    /\ \E ok \in BOOLEAN :
          IF ok THEN Goto(p, "gen_client")
          ELSE Return(p, EmptyRes, Err("keygen"))
    /\ UNCHANGED <<dir, bytesInJSON, in, loc, calls>>

\* acme.NewClient, then client.ExcludeChallenges
GenNewClient(p) ==
    /\ pc[p] = "gen_client"
    /\ \E ok \in BOOLEAN :
          /\ Log(p, Call("NewClient", ok))
          /\ IF ok THEN Goto(p, "gen_register")
             ELSE Return(p, EmptyRes, Err("client"))
    /\ UNCHANGED <<dir, bytesInJSON, in, loc>>

GenRegister_ignoreErr(p) ==
    /\ pc[p] = "gen_register"
    /\ \E ok \in BOOLEAN :
          /\ Log(p, Call("Register", ok))
          /\ Goto(p, "gen_agree")
    /\ UNCHANGED <<dir, bytesInJSON, in, loc>>

\* client.Register
GenRegister(p) ==
    /\ pc[p] = "gen_register"
    /\ \E ok \in BOOLEAN :
          /\ Log(p, Call("Register", ok))
          /\ IF ok THEN Goto(p, "gen_agree")
             ELSE Return(p, EmptyRes, Err("register"))
    /\ UNCHANGED <<dir, bytesInJSON, in, loc>>

\* client.AgreeToTOS
GenAgree(p) ==
    /\ pc[p] = "gen_agree"
    /\ \E ok \in BOOLEAN :
          /\ Log(p, Call("AgreeToTOS", ok))
          /\ IF ok THEN Goto(p, "gen_obtain")
             ELSE Return(p, EmptyRes, Err("agree"))
    /\ UNCHANGED <<dir, bytesInJSON, in, loc>>

\* The range loop over the failure map, visiting its keys in the sequence
\* `order`, and the error built from the two slices it fills.
RECURSIVE CollectFailures(_, _, _, _, _)
CollectFailures(failures, order, i, failedDomains, failedDomainsErrors) ==
    IF i > Len(order)
    THEN [kind |-> "obtain", failedDomains |-> failedDomains,
          failedDomainsErrors |-> failedDomainsErrors]
    ELSE CollectFailures(failures, order, i + 1,
                         Append(failedDomains, order[i]),
                         Append(failedDomainsErrors, failures[order[i]]))

\* The result of genCerts after ObtainCertificate returned
\* (newCertificates, failures); a Go map is ranged over in any order.
ObtainResults_partial(newCertificates, failures) ==
    IF DOMAIN failures # {}
    THEN {[res |-> newCertificates, err |-> CollectFailures(failures, order, 1, <<>>, <<>>)] :
             order \in Perms(DOMAIN failures)}
    ELSE {[res |-> newCertificates, err |-> Nil]}

ObtainResults(newCertificates, failures) ==
    IF DOMAIN failures # {}
    THEN {[res |-> EmptyRes, err |-> CollectFailures(failures, order, 1, <<>>, <<>>)] :
             order \in Perms(DOMAIN failures)}
    ELSE {[res |-> newCertificates, err |-> Nil]}

\* Build the domain set, client.ObtainCertificate, and the result.
GenObtain(p) ==
    /\ pc[p] = "gen_obtain"
    /\ LET domains == DomainSet(in[p].domain, in[p].subDomains) IN
       \E failed \in SUBSET Range(domains) :
       \E failures \in [failed -> Causes], newCertificates \in IssuedResources :
          /\ Log(p, [Call("ObtainCertificate", failed = {})
                        EXCEPT !.domains = domains, !.failures = failures,
                               !.res = newCertificates])
          /\ \E r \in ObtainResults(newCertificates, failures) :
                Return(p, r.res, r.err)
    /\ UNCHANGED <<dir, bytesInJSON, in, loc>>

\* The caller has taken the result of the call; p may make its next call.
Done(p) ==
    /\ pc[p] = "ret"
    /\ pc' = [pc EXCEPT ![p] = "idle"]
    /\ in' = [in EXCEPT ![p] = NoIn]
    /\ loc' = [loc EXCEPT ![p] = NoLoc]
    /\ calls' = [calls EXCEPT ![p] = <<>>]
    /\ ret' = [ret EXCEPT ![p] = NoRet]
    /\ UNCHANGED <<dir, bytesInJSON>>

NextGen ==
    \/ GenCall(1)
    \/ GenKey(1)
    \/ GenNewClient(1)
    \/ GenRegister(1)
    \/ GenAgree(1)
    \/ GenObtain(1)
    \/ Done(1)

SpecGen == Init /\ [][NextGen]_vars

(***************************************************************************)
(* Properties of genCerts                                                  *)
(***************************************************************************)
Last(log) == log[Len(log)]

Str_example_com == <<"e", "x", "a", "m", "p", "l", "e", ".", "c", "o", "m">>

Str_www == <<"w", "w", "w">>

Str_api == <<"a", "p", "i">>

\* The number of dot-separated labels of a name: one more than its dots.
LabelCount(s) == Cardinality({i \in 1..Len(s) : s[i] = "."}) + 1

\* The Domain Set as the specification words it.
ExpectedDomainSet(primary, subs) ==
    IF LabelCount(primary) <= 2
    THEN [i \in 1..(Len(subs) + 1) |->
             IF i = 1 THEN primary ELSE subs[i - 1] \o <<".">> \o primary]
    ELSE <<primary>>

\* C1: in genCerts ObtainCertificate is requested only after Register and
\* then AgreeToTOS both succeeded in the same call; after a failed Register
\* neither AgreeToTOS nor ObtainCertificate is invoked, after a failed
\* AgreeToTOS ObtainCertificate is not invoked, and in both cases genCerts
\* has returned an error.
C1_GenOrder ==
    \A p \in Procs :
       LET log == calls[p] IN
       /\ \A i \in 1..Len(log) :
             log[i].op = "ObtainCertificate" =>
                \E j, k \in 1..Len(log) :
                   /\ j < k /\ k < i
                   /\ log[j].op = "Register" /\ log[j].ok
                   /\ log[k].op = "AgreeToTOS" /\ log[k].ok
       /\ \A i \in 1..Len(log) :
             (log[i].op = "Register" /\ ~log[i].ok) =>
                /\ i = Len(log)
                /\ {"AgreeToTOS", "ObtainCertificate"} \cap Ops(log) = {}
                /\ pc[p] = "ret" /\ ret[p].err.kind = "register"
                /\ ret[p].res = EmptyRes
       /\ \A i \in 1..Len(log) :
             (log[i].op = "AgreeToTOS" /\ ~log[i].ok) =>
                /\ i = Len(log)
                /\ "ObtainCertificate" \notin Ops(log)
                /\ pc[p] = "ret" /\ ret[p].err.kind = "agree"
                /\ ret[p].res = EmptyRes

C1_Witness ==
    \E p \in Procs :
       /\ pc[p] = "ret"
       /\ Len(calls[p]) = 4
       /\ calls[p][2].op = "Register" /\ calls[p][2].ok
       /\ calls[p][3].op = "AgreeToTOS" /\ calls[p][3].ok
       /\ calls[p][4].op = "ObtainCertificate"

\* C3: issuance is all-or-nothing: when the failure map ObtainCertificate
\* returned is non-empty, genCerts returns an error and the empty resource,
\* whatever resource the client returned, and the error lists every failed
\* domain once, the i-th listed cause being the cause of the i-th listed
\* domain; a non-empty resource is returned only when no domain failed.
C3_AllOrNothing ==
    \A p \in Procs :
       (pc[p] = "ret" /\ Len(calls[p]) > 0
          /\ Last(calls[p]).op = "ObtainCertificate") =>
          LET f == Last(calls[p]).failures
              r == ret[p]
          IN  /\ DOMAIN f # {} =>
                    /\ r.err.kind = "obtain"
                    /\ r.res = EmptyRes
                    /\ Range(r.err.failedDomains) = DOMAIN f
                    /\ Len(r.err.failedDomains) = Cardinality(DOMAIN f)
                    /\ Len(r.err.failedDomainsErrors) = Len(r.err.failedDomains)
                    /\ \A i \in 1..Len(r.err.failedDomains) :
                          r.err.failedDomainsErrors[i] = f[r.err.failedDomains[i]]
              /\ DOMAIN f = {} =>
                    r.err.kind = "nil" /\ r.res = Last(calls[p]).res
              /\ r.res # EmptyRes => DOMAIN f = {}

\* Two of three domains failed with different causes, and the client had
\* returned a certificate all the same.
C3_Witness ==
    \E p \in Procs :
       /\ pc[p] = "ret" /\ Len(calls[p]) > 0
       /\ Last(calls[p]).op = "ObtainCertificate"
       /\ Len(Last(calls[p]).domains) = 3
       /\ Cardinality(DOMAIN Last(calls[p]).failures) = 2
       /\ Cardinality({Last(calls[p]).failures[d] : d \in DOMAIN Last(calls[p]).failures}) = 2
       /\ Last(calls[p]).res # EmptyRes
       /\ ret[p].res = EmptyRes

\* C10: the sequence genCerts submits to ObtainCertificate is the primary
\* followed by sub + "." + primary for each configured subdomain in order
\* when the primary has at most 2 dot-separated labels, and the primary
\* alone when it has more than 2.
C10_DomainSet ==
    /\ \A p \in Procs : \A i \in 1..Len(calls[p]) :
          calls[p][i].op = "ObtainCertificate" =>
             calls[p][i].domains = ExpectedDomainSet(in[p].domain, in[p].subDomains)
    /\ DomainSet(Str_example_com, <<Str_www, Str_api>>)
          = <<Str_example_com, Str_www \o <<".">> \o Str_example_com,
              Str_api \o <<".">> \o Str_example_com>>
    /\ DomainSet(<<"s", "u", "b", ".">> \o Str_example_com, <<Str_www, Str_api>>)
          = << <<"s", "u", "b", ".">> \o Str_example_com >>

\* A two-label primary was expanded with two different subdomains.
C10_Witness ==
    \E p \in Procs :
       /\ pc[p] = "ret" /\ Len(calls[p]) > 0
       /\ Last(calls[p]).op = "ObtainCertificate"
       /\ in[p].domain = <<"a", ".", "a">>
       /\ in[p].subDomains = <<<<"x">>, <<"w">>>>
       /\ Last(calls[p]).domains = <<<<"a", ".", "a">>, <<"x", ".", "a", ".", "a">>,
                                     <<"w", ".", "a", ".", "a">>>>

(***************************************************************************)
(* The certificate directory                                               *)
(***************************************************************************)
NoFile == <<"nofile", 0>>

\* What a write that failed after truncating the file leaves: an incomplete
\* prefix of the data, neither a parseable certificate nor valid JSON.
Partial == <<"partial", 0>>

Exists(file) == file[1] # "nofile"

\* Hours from time.Now() to NotAfter of the certificates the model stores.
ExpiryHours == {-12, 240, 1080, 1092, 1104, 2400}

Res(h) == [Certificate |-> Pem(h), PrivateKey |-> Key(h), meta |-> Meta(h)]

\* The resources callers hand to saveCerts.
Resources == {Res(h) : h \in ExpiryHours}

\* Two of them, one due for renewal and one not, for concurrent callers.
TwoResources == {Res(240), Res(2400)}

\* ioutil.WriteFile(name, data, 0600) on a file whose state is old: it
\* succeeds and the file holds data, or it fails and the file is as before
\* (it could not be opened) or truncated (the write itself failed).
WriteFile(old, data) ==
    {[ok |-> TRUE, content |-> data],
     [ok |-> FALSE, content |-> old],
     [ok |-> FALSE, content |-> Partial]}

\* ioutil.ReadFile(name)
ReadFile(file) ==
    IF Exists(file) THEN [bytes |-> file, err |-> Nil]
    ELSE [bytes |-> NoBytes, err |-> Err("notexist")]

\* The fields of acme.CertificateResource that its JSON encoding carries.
ResourceFields == {"Certificate", "PrivateKey", "meta"}

JSONFields == IF bytesInJSON THEN ResourceFields ELSE {"meta"}

\* json.MarshalIndent(&cert, "", "\t"): a document with one encoded member
\* per carried field.
MarshalIndent(cert) == <<"json", [f \in JSONFields |-> <<"enc", cert[f]>>]>>

\* json.Unmarshal(metaBytes, &certRes): members present are decoded into the
\* fields, the other fields keep their zero value; anything but a complete
\* document is a syntax error.
Unmarshal(metaBytes) ==
    IF metaBytes[1] = "json"
    THEN [res |-> [f \in ResourceFields |->
                      IF f \in DOMAIN metaBytes[2] THEN metaBytes[2][f][2]
                      ELSE EmptyRes[f]],
          err |-> Nil]
    ELSE [res |-> EmptyRes, err |-> Err("unmarshal")]

loadCert_key(d) == ReadFile(d.key)

loadCert(d) == ReadFile(d.crt)

loadCertMeta(d) ==
    LET r == ReadFile(d.json) IN
    IF r.err.kind # "nil" THEN [res |-> EmptyRes, err |-> r.err]
    ELSE Unmarshal(r.bytes)

isCertAvailable_json(d) == Exists(d.crt) /\ Exists(d.key) /\ Exists(d.json)

isCertAvailable(d) == Exists(d.crt) /\ Exists(d.key)

(***************************************************************************)
(* saveCerts                                                               *)
(***************************************************************************)
SaveCall_locked(p, certs) ==
    /\ pc[p] = "idle"
    /\ \A q \in Procs : in[q].op # "saveCerts"
    /\ \E cert \in certs :
          Enter(p, "save_crt", [NoIn EXCEPT !.op = "saveCerts", !.cert = cert])
    /\ UNCHANGED <<dir, bytesInJSON>>

\* A caller invokes saveCerts(certsDir, cert) with one of `certs`.
SaveCall(p, certs) ==
    /\ pc[p] = "idle"
    /\ \E cert \in certs :
          Enter(p, "save_crt", [NoIn EXCEPT !.op = "saveCerts", !.cert = cert])
    /\ UNCHANGED <<dir, bytesInJSON>>

SaveCrt_ignoreErr(p) ==
    /\ pc[p] = "save_crt"
    /\ \E w \in WriteFile(dir.crt, in[p].cert.Certificate) :
          /\ dir' = [dir EXCEPT !.crt = w.content]
          /\ Goto(p, "save_key")
    /\ UNCHANGED <<bytesInJSON, in, loc, calls>>

\* Save cert file.
SaveCrt(p) ==
    /\ pc[p] = "save_crt"
    /\ \E w \in WriteFile(dir.crt, in[p].cert.Certificate) :
          /\ dir' = [dir EXCEPT !.crt = w.content]
          /\ IF w.ok THEN Goto(p, "save_key")
             ELSE Return(p, EmptyRes, Err("write_crt"))
    /\ UNCHANGED <<bytesInJSON, in, loc, calls>>

SaveKey_rollback(p) ==
    /\ pc[p] = "save_key"
    /\ \E w \in WriteFile(dir.key, in[p].cert.PrivateKey) :
          /\ IF w.ok
             THEN /\ dir' = [dir EXCEPT !.key = w.content]
                  /\ Goto(p, "save_json")
             ELSE /\ dir' = [dir EXCEPT !.key = w.content, !.crt = NoFile]
                  /\ Return(p, EmptyRes, Err("write_key"))
    /\ UNCHANGED <<bytesInJSON, in, loc, calls>>

\* Save private key.
SaveKey(p) ==
    /\ pc[p] = "save_key"
    /\ \E w \in WriteFile(dir.key, in[p].cert.PrivateKey) :
          /\ dir' = [dir EXCEPT !.key = w.content]
          /\ IF w.ok THEN Goto(p, "save_json")
             ELSE Return(p, EmptyRes, Err("write_key"))
    /\ UNCHANGED <<bytesInJSON, in, loc, calls>>

\* Save cert metadata: serialize, then write certs.json.
SaveJSON(p) ==
    /\ pc[p] = "save_json"
    /\ \/ /\ Return(p, EmptyRes, Err("marshal"))
          /\ dir' = dir
       \/ \E w \in WriteFile(dir.json, MarshalIndent(in[p].cert)) :
             /\ dir' = [dir EXCEPT !.json = w.content]
             /\ IF w.ok THEN Return(p, EmptyRes, Nil)
                ELSE Return(p, EmptyRes, Err("write_json"))
    /\ UNCHANGED <<bytesInJSON, in, loc, calls>>

(***************************************************************************)
(* The read operations, each one step of a caller between two calls        *)
(***************************************************************************)
After(p) ==
    [op |-> in[p].op, cert |-> in[p].cert,
     ok |-> pc[p] = "ret" /\ ret[p].err.kind = "nil"]

ReadOp(p, op, result) ==
    /\ Free(p)
    /\ pc' = [pc EXCEPT ![p] = "ret"]
    /\ in' = [in EXCEPT ![p] = [NoIn EXCEPT !.op = op, !.after = After(p)]]
    /\ loc' = [loc EXCEPT ![p] = NoLoc]
    /\ calls' = [calls EXCEPT ![p] = <<>>]
    /\ ret' = [ret EXCEPT ![p] = result]
    /\ UNCHANGED <<dir, bytesInJSON>>

LoadCert(p) ==
    ReadOp(p, "loadCert",
           [NoRet EXCEPT !.bytes = loadCert(dir).bytes, !.err = loadCert(dir).err])

LoadCertMeta(p) ==
    ReadOp(p, "loadCertMeta",
           [NoRet EXCEPT !.res = loadCertMeta(dir).res, !.err = loadCertMeta(dir).err])

IsCertAvailable(p) ==
    ReadOp(p, "isCertAvailable",
           [NoRet EXCEPT !.avail = isCertAvailable(dir), !.err = Nil])

(***************************************************************************)
(* renewCerts                                                              *)
(***************************************************************************)
renewDaysLimit == 45

TruncDiv_ceil(x, y) == -((-x) \div y)

\* int(x / y) for the float quotient: truncation toward zero.
TruncDiv(x, y) == IF x >= 0 THEN x \div y ELSE -((-x) \div y)

\* The hours of the most negative time.Duration, which the zero time.Time
\* minus time.Now() saturates to.
MinDurationHours == -2562047

\* acme.GetPEMCertExpiration(certBytes) and expTime.Sub(time.Now()).Hours():
\* the hours to NotAfter, or an error with the zero time.
GetPEMCertExpiration(certBytes) ==
    IF certBytes[1] = "pem" THEN [hours |-> certBytes[2], err |-> Nil]
    ELSE [hours |-> MinDurationHours, err |-> Err("pem")]

RenewCall(p) ==
    /\ pc[p] = "idle"
    /\ Enter(p, "renew_load", [NoIn EXCEPT !.op = "renewCerts"])
    /\ UNCHANGED <<dir, bytesInJSON>>

\* certBytes, err := loadCert(certsDir)
RenewLoadCert(p) ==
    /\ pc[p] = "renew_load"
    /\ LET r == loadCert(dir) IN
       IF r.err.kind # "nil"
       THEN /\ Return(p, EmptyRes, r.err)
            /\ loc' = loc
       ELSE /\ Goto(p, "renew_gate")
            /\ loc' = [loc EXCEPT ![p].certBytes = r.bytes]
    /\ UNCHANGED <<dir, bytesInJSON, in, calls>>

RenewGate_ge(p) ==
    /\ pc[p] = "renew_gate"
    /\ LET expTime == GetPEMCertExpiration(loc[p].certBytes)
           expTimeDays == TruncDiv(expTime.hours, 24)
       IN  /\ loc' = [loc EXCEPT ![p].expTimeDays = expTimeDays]
           /\ IF expTimeDays >= renewDaysLimit
              THEN Return(p, EmptyRes, [kind |-> "notyet", days |-> expTimeDays])
              ELSE Goto(p, "renew_key")
    /\ UNCHANGED <<dir, bytesInJSON, in, calls>>

\* The expiration is extracted (its error is assigned and not looked at),
\* the days to expiry are computed and compared with renewDaysLimit.
RenewGate(p) ==
    /\ pc[p] = "renew_gate"
    /\ LET expTime == GetPEMCertExpiration(loc[p].certBytes)
           expTimeDays == TruncDiv(expTime.hours, 24)
       IN  /\ loc' = [loc EXCEPT ![p].expTimeDays = expTimeDays]
           /\ IF expTimeDays > renewDaysLimit
              THEN Return(p, EmptyRes, [kind |-> "notyet", days |-> expTimeDays])
              ELSE Goto(p, "renew_key")
    /\ UNCHANGED <<dir, bytesInJSON, in, calls>>

\* rsa.GenerateKey
RenewKey(p) ==
    /\ pc[p] = "renew_key"
    /\ \E ok \in BOOLEAN :
          IF ok THEN Goto(p, "renew_client")
          ELSE Return(p, EmptyRes, Err("keygen"))
    /\ UNCHANGED <<dir, bytesInJSON, in, loc, calls>>

\* acme.NewClient, then client.ExcludeChallenges
RenewNewClient(p) ==
    /\ pc[p] = "renew_client"
    /\ \E ok \in BOOLEAN :
          /\ Log(p, Call("NewClient", ok))
          /\ IF ok THEN Goto(p, "renew_meta")
             ELSE Return(p, EmptyRes, Err("client"))
    /\ UNCHANGED <<dir, bytesInJSON, in, loc>>

RenewLoadMeta_ignoreErr(p) ==
    /\ pc[p] = "renew_meta"
    /\ Goto(p, "renew_request")
    /\ loc' = [loc EXCEPT ![p].certMeta = loadCertMeta(dir).res]
    /\ UNCHANGED <<dir, bytesInJSON, in, calls>>

\* certMeta, err := loadCertMeta(certsDir)
RenewLoadMeta(p) ==
    /\ pc[p] = "renew_meta"
    /\ LET r == loadCertMeta(dir) IN
       IF r.err.kind # "nil"
       THEN /\ Return(p, EmptyRes, r.err)
            /\ loc' = loc
       ELSE /\ Goto(p, "renew_request")
            /\ loc' = [loc EXCEPT ![p].certMeta = r.res]
    /\ UNCHANGED <<dir, bytesInJSON, in, calls>>

RenewRequest_store(p) ==
    /\ pc[p] = "renew_request"
    /\ LET certMeta == [loc[p].certMeta EXCEPT !.Certificate = loc[p].certBytes] IN
       \E ok \in BOOLEAN, newCertificates \in IssuedResources \ {EmptyRes} :
          /\ loc' = [loc EXCEPT ![p].certMeta = certMeta]
          /\ Log(p, [Call("RenewCertificate", ok)
                        EXCEPT !.ref = certMeta,
                               !.res = IF ok THEN newCertificates ELSE EmptyRes])
          /\ IF ok THEN Return(p, newCertificates, Nil)
             ELSE Return(p, EmptyRes, Err("renew"))
          /\ dir' = IF ok THEN [dir EXCEPT !.crt = newCertificates.Certificate] ELSE dir
    /\ UNCHANGED <<bytesInJSON, in>>

RenewRequest_metaCert(p) ==
    /\ pc[p] = "renew_request"
    /\ LET certMeta == loc[p].certMeta IN
       \E ok \in BOOLEAN, newCertificates \in IssuedResources \ {EmptyRes} :
          /\ loc' = [loc EXCEPT ![p].certMeta = certMeta]
          /\ Log(p, [Call("RenewCertificate", ok)
                        EXCEPT !.ref = certMeta,
                               !.res = IF ok THEN newCertificates ELSE EmptyRes])
          /\ IF ok THEN Return(p, newCertificates, Nil)
             ELSE Return(p, EmptyRes, Err("renew"))
    /\ UNCHANGED <<dir, bytesInJSON, in>>

\* certMeta.Certificate = certBytes, then client.RenewCertificate(certMeta, true)
RenewRequest(p) ==
    /\ pc[p] = "renew_request"
    /\ LET certMeta == [loc[p].certMeta EXCEPT !.Certificate = loc[p].certBytes] IN
       \E ok \in BOOLEAN, newCertificates \in IssuedResources \ {EmptyRes} :
          /\ loc' = [loc EXCEPT ![p].certMeta = certMeta]
          /\ Log(p, [Call("RenewCertificate", ok)
                        EXCEPT !.ref = certMeta,
                               !.res = IF ok THEN newCertificates ELSE EmptyRes])
          /\ IF ok THEN Return(p, newCertificates, Nil)
             ELSE Return(p, EmptyRes, Err("renew"))
    /\ UNCHANGED <<dir, bytesInJSON, in>>

(***************************************************************************)
(* Specifications                                                          *)
(***************************************************************************)
\* Concurrent invocations of saveCerts and renewCerts on one directory.
Next ==
    \E p \in Procs :
       \/ SaveCall(p, TwoResources)
       \/ SaveCrt(p)
       \/ SaveKey(p)
       \/ SaveJSON(p)
       \/ RenewCall(p)
       \/ RenewLoadCert(p)
       \/ RenewGate(p)
       \/ RenewKey(p)
       \/ RenewNewClient(p)
       \/ RenewLoadMeta(p)
       \/ RenewRequest(p)
       \/ Done(p)

Spec == Init /\ [][Next]_vars

\* One caller making one call after another on the directory.
NextSeq ==
    \/ SaveCall(1, Resources)
    \/ SaveCrt(1)
    \/ SaveKey(1)
    \/ SaveJSON(1)
    \/ RenewCall(1)
    \/ RenewLoadCert(1)
    \/ RenewGate(1)
    \/ RenewKey(1)
    \/ RenewNewClient(1)
    \/ RenewLoadMeta(1)
    \/ RenewRequest(1)
    \/ LoadCert(1)
    \/ LoadCertMeta(1)
    \/ IsCertAvailable(1)
    \/ Done(1)

SpecSeq == Init /\ [][NextSeq]_vars

(***************************************************************************)
(* Properties of renewCerts and of the store                               *)
(***************************************************************************)
RenewPastGate(p) ==
    in[p].op = "renewCerts" /\ pc[p] \notin {"renew_load", "renew_gate"}

FilesOf(cert) ==
    [crt |-> cert.Certificate, key |-> cert.PrivateKey, json |-> MarshalIndent(cert)]

\* C2: when the stored certificate has more whole days to expiry than 45,
\* renewCerts returns the not-yet-due error carrying the day count and has
\* made no CA-client call; when it has 45 or fewer it is not refused and
\* goes on to key generation and client construction.
C2_RenewalGate ==
    \A p \in Procs :
       (RenewPastGate(p) /\ loc[p].certBytes[1] = "pem") =>
          LET days == loc[p].certBytes[2] \div 24 IN
          /\ days > 45 =>
                /\ pc[p] = "ret"
                /\ ret[p].err.kind = "notyet"
                /\ ret[p].err.days = days
                /\ ret[p].res = EmptyRes
                /\ calls[p] = <<>>
          /\ days <= 45 =>
                /\ ret[p].err.kind # "notyet"
                /\ pc[p] = "ret" => (ret[p].err.kind = "keygen" \/ Len(calls[p]) >= 1)

\* 100 days left: refused.
C2_Witness ==
    \E p \in Procs :
       /\ pc[p] = "ret" /\ in[p].op = "renewCerts"
       /\ loc[p].certBytes = Pem(2400)
       /\ ret[p].err.kind = "notyet" /\ ret[p].err.days = 100

\* C4: a renewal request is sent only by a session whose account was
\* registered and whose agreement was accepted in the same renewCerts call.
C4_RenewRegisters ==
    \A p \in Procs : \A i \in 1..Len(calls[p]) :
       calls[p][i].op = "RenewCertificate" =>
          \E j, k \in 1..Len(calls[p]) :
             /\ j < k /\ k < i
             /\ calls[p][j].op = "Register" /\ calls[p][j].ok
             /\ calls[p][k].op = "AgreeToTOS" /\ calls[p][k].ok

\* C5: renewCerts swallows no error: when the bytes of public.crt are not a
\* parseable certificate it never reaches the renewal request, and what it
\* returns is an error.
C5_NoErrorSwallowed ==
    \A p \in Procs :
       (RenewPastGate(p) /\ loc[p].certBytes # NoBytes
          /\ GetPEMCertExpiration(loc[p].certBytes).err.kind # "nil") =>
          /\ pc[p] # "renew_request"
          /\ "RenewCertificate" \notin Ops(calls[p])
          /\ pc[p] = "ret" => ret[p].err.kind # "nil"

SaveLabels == {"save_crt", "save_key", "save_json"}

\* What a failed write may have left of a file that was `old`.
AfterFailedWrite(new, old) == new = old \/ new = Partial

C6_Step(p) ==
    LET c == in[p].cert IN
    /\ pc[p] = "save_crt" =>
          \/ /\ pc'[p] = "save_key"
             /\ dir' = [dir EXCEPT !.crt = c.Certificate]
          \/ /\ pc'[p] = "ret" /\ ret'[p].err.kind = "write_crt"
             /\ AfterFailedWrite(dir'.crt, dir.crt)
             /\ dir'.key = dir.key /\ dir'.json = dir.json
    /\ pc[p] = "save_key" =>
          \/ /\ pc'[p] = "save_json"
             /\ dir' = [dir EXCEPT !.key = c.PrivateKey]
             /\ dir'.crt = c.Certificate
          \/ /\ pc'[p] = "ret" /\ ret'[p].err.kind = "write_key"
             /\ dir'.crt = c.Certificate
             /\ AfterFailedWrite(dir'.key, dir.key)
             /\ dir'.json = dir.json
    /\ pc[p] = "save_json" =>
          /\ pc'[p] = "ret"
          /\ dir'.crt = c.Certificate /\ dir'.key = c.PrivateKey
          /\ \/ ret'[p].err.kind = "nil" /\ dir'.json = MarshalIndent(c)
             \/ /\ ret'[p].err.kind \in {"marshal", "write_json"}
                /\ AfterFailedWrite(dir'.json, dir.json)
    /\ pc[p] = "ret" => dir' = dir

\* C6: saveCerts writes public.crt, then private.key, then certs.json, stops
\* at the first failing step with its error and undoes nothing: when the
\* key write fails public.crt holds the new certificate and certs.json is
\* untouched; when serialization or the metadata write fails public.crt and
\* private.key hold the new bytes and certs.json was not completed; success
\* is returned only with all three written.
C6_SaveOrder ==
    [][\A p \in Procs :
          (in[p].op = "saveCerts" /\ pc'[p] # pc[p]) => C6_Step(p)]_vars

\* The key write failed over a directory that held another resource.
C6_Witness ==
    \E p \in Procs :
       /\ pc[p] = "ret" /\ in[p].op = "saveCerts"
       /\ ret[p].err.kind = "write_key"
       /\ dir.crt = in[p].cert.Certificate
       /\ dir.key # in[p].cert.PrivateKey
       /\ dir.json[1] = "json" /\ dir.json # MarshalIndent(in[p].cert)

\* C7: nothing coordinates the invocations on one directory: whatever the
\* other invocation is doing, a caller can enter saveCerts and each of its
\* writes can go ahead.
C7_NoCoordination ==
    \A p \in Procs :
       /\ pc[p] = "idle" => ENABLED SaveCall(p, TwoResources)
       /\ pc[p] = "save_crt" => ENABLED SaveCrt(p)
       /\ pc[p] = "save_key" => ENABLED SaveKey(p)
       /\ pc[p] = "save_json" => ENABLED SaveJSON(p)

\* Both calls returned success and the three files are of no one resource.
C7_Witness ==
    /\ \A p \in Procs :
          pc[p] = "ret" /\ in[p].op = "saveCerts" /\ ret[p].err.kind = "nil"
    /\ in[1].cert # in[2].cert
    /\ \A p \in Procs : dir # FilesOf(in[p].cert)
    /\ \E p, q \in Procs :
          dir.crt = in[p].cert.Certificate /\ dir.key = in[q].cert.PrivateKey /\ p # q

\* C8: loadCert right after a successful saveCerts(dir, r), with no other
\* writer, returns r's certificate bytes, and private.key holds r's key.
C8_CertRoundTrip ==
    \A p \in Procs :
       (pc[p] = "ret" /\ in[p].op = "loadCert"
          /\ in[p].after.op = "saveCerts" /\ in[p].after.ok) =>
          /\ ret[p].err.kind = "nil"
          /\ ret[p].bytes = in[p].after.cert.Certificate
          /\ dir.key = in[p].after.cert.PrivateKey

C8_Witness ==
    \E p \in Procs :
       /\ pc[p] = "ret" /\ in[p].op = "loadCert"
       /\ in[p].after.op = "saveCerts" /\ in[p].after.ok
       /\ in[p].after.cert = Res(240)
       /\ ret[p].bytes = Pem(240)

(***************************************************************************)
(* isValidDomain                                                           *)
(***************************************************************************)
\* White space that strings.TrimSpace removes.
WhiteSpace == {" ", "\t", "\n", "\r"}

\* The backquote character, which cannot be written as a one-character
\* string here.
Backquote == "backquote"

\* The characters of the ContainsAny argument.
ForbiddenChars ==
    {Backquote, "~", "!", "@", "#", "$", "%", "^", "&", "*", "(", ")", "+", "=",
     "{", "}", "[", "]", "|", "\\", "\"", "'", ";", ":", ">", "<", "?", "/"}

\* The longest host isValidDomain accepts.
MaxHostBytes == 255

\* The number of white-space characters s starts with, and ends with.
LeadingSpace(s) ==
    IF \A i \in 1..Len(s) : s[i] \in WhiteSpace THEN Len(s)
    ELSE (CHOOSE i \in 1..Len(s) :
             s[i] \notin WhiteSpace /\ \A j \in 1..(i - 1) : s[j] \in WhiteSpace) - 1

TrailingSpace(s) ==
    IF \A i \in 1..Len(s) : s[i] \in WhiteSpace THEN Len(s)
    ELSE Len(s) - (CHOOSE i \in 1..Len(s) :
                      s[i] \notin WhiteSpace
                      /\ \A j \in (i + 1)..Len(s) : s[j] \in WhiteSpace)

\* strings.TrimSpace: s without the white space it starts and ends with.
TrimSpace(s) ==
    IF LeadingSpace(s) = Len(s) THEN <<>>
    ELSE SubSeq(s, LeadingSpace(s) + 1, Len(s) - TrailingSpace(s))

\* strings.ContainsAny(s, chars)
ContainsAny(s, chars) == \E i \in 1..Len(s) : s[i] \in chars

isValidDomain_noTrim(h) ==
    LET host == h IN
    IF Len(host) = 0 \/ Len(host) > MaxHostBytes THEN FALSE
    ELSE IF host[Len(host)] = "-" \/ host[1] = "-" THEN FALSE
    ELSE IF host[Len(host)] = "_" \/ host[1] = "_" THEN FALSE
    ELSE IF host[Len(host)] = "." \/ host[1] = "." THEN FALSE
    ELSE IF ContainsAny(host, ForbiddenChars) THEN FALSE
    ELSE TRUE

isValidDomain_tailOnly(h) ==
    LET host == TrimSpace(h) IN
    IF Len(host) = 0 \/ Len(host) > MaxHostBytes THEN FALSE
    ELSE IF host[Len(host)] = "-" \/ host[1] = "-" THEN FALSE
    ELSE IF host[Len(host)] = "_" \/ host[1] = "_" THEN FALSE
    ELSE IF host[Len(host)] = "." \/ host[1] = "." THEN FALSE
    ELSE IF ContainsAny(<<host[Len(host)]>>, ForbiddenChars) THEN FALSE
    ELSE TRUE

\* isValidDomain(host), check by check.
isValidDomain(h) ==
    LET host == TrimSpace(h) IN
    IF Len(host) = 0 \/ Len(host) > MaxHostBytes THEN FALSE
    ELSE IF host[Len(host)] = "-" \/ host[1] = "-" THEN FALSE
    ELSE IF host[Len(host)] = "_" \/ host[1] = "_" THEN FALSE
    ELSE IF host[Len(host)] = "." \/ host[1] = "." THEN FALSE
    ELSE IF ContainsAny(host, ForbiddenChars) THEN FALSE
    ELSE TRUE

\* n times the character c.
Fill(c, n) == [i \in 1..n |-> c]

\* The characters hosts are drawn from: a letter, the three characters that
\* may not lead or trail, a forbidden one, and white space.
HostChars == {"a", "-", "_", ".", "!", " "}

\* How many characters follow the drawn ones, to reach the length limit.
FillLengths == {0, 252, 253, 254}

\* The hosts isValidDomain is called with: up to MaxHostLen drawn characters
\* followed by a run of letters or of white space.
Hosts ==
    {b \o Fill(c, n) : b \in StringsUpTo(HostChars, MaxHostLen),
                        c \in {"a", " "}, n \in FillLengths}

\* A caller invokes isValidDomain(host).
IsValidDomain(p, hosts) ==
    /\ pc[p] = "idle"
    /\ \E host \in hosts :
          /\ in' = [in EXCEPT ![p] = [NoIn EXCEPT !.op = "isValidDomain",
                                                   !.domain = host]]
          /\ ret' = [ret EXCEPT ![p] = [NoRet EXCEPT !.valid = isValidDomain(host),
                                                     !.err = Nil]]
    /\ pc' = [pc EXCEPT ![p] = "ret"]
    /\ UNCHANGED <<dir, bytesInJSON, loc, calls>>

\* The primaries and subdomains whose names are checked for validity: short
\* ones and ones at the length limit, with white space and a leading dash.
NamePrimaries ==
    {b \o Fill("a", n) : b \in StringsUpTo({"a", "."}, 2), n \in {0, 253}}

NameSubs == {<<"w">>, <<" ", "w", "w">>}

\* isValidDomain on its own, and genCerts on names around the length limit.
NextValid ==
    \/ IsValidDomain(1, Hosts)
    \/ GenCallOf(1, NamePrimaries, ListsUpTo(NameSubs, MaxSubs))
    \/ GenKey(1)
    \/ GenNewClient(1)
    \/ GenRegister(1)
    \/ GenAgree(1)
    \/ GenObtain(1)
    \/ Done(1)

SpecValid == Init /\ [][NextValid]_vars

(***************************************************************************)
(* Properties of isValidDomain                                             *)
(***************************************************************************)
\* s without its surrounding white space: without the lead white-space
\* characters before its first other character and the trail ones after
\* its last.
Trimmed(s) ==
    LET lead == CHOOSE k \in 0..Len(s) :
                   /\ k = Len(s) \/ s[k + 1] \notin WhiteSpace
                   /\ \A j \in 1..k : s[j] \in WhiteSpace
        trail == CHOOSE k \in 0..Len(s) :
                    /\ k = Len(s) \/ s[Len(s) - k] \notin WhiteSpace
                    /\ \A j \in (Len(s) - k + 1)..Len(s) : s[j] \in WhiteSpace
    IN  IF lead = Len(s) THEN <<>> ELSE SubSeq(s, lead + 1, Len(s) - trail)

EdgeChars == {"-", "_", "."}

\* The reference definition of a valid host.
ReferenceValid(s) ==
    LET t == Trimmed(s) IN
    /\ Len(t) > 0
    /\ Len(t) <= 255
    /\ t[1] \notin EdgeChars
    /\ t[Len(t)] \notin EdgeChars
    /\ \A i \in 1..Len(t) : t[i] \notin ForbiddenChars

ValidatorReturned(p) == pc[p] = "ret" /\ in[p].op = "isValidDomain"

\* C11, original statement: isValidDomain returns false for every input whose own
\* length, surrounding white space included, is 0 or greater than 255.
C11_RawLength ==
    \A p \in Procs :
       (ValidatorReturned(p)
          /\ (Len(in[p].domain) = 0 \/ Len(in[p].domain) > 255)) =>
          ~ret[p].valid

\* C11, amended: isValidDomain returns false for every input whose length
\* after trimming the surrounding white space is 0 or greater than 255.
C11_TrimmedLength ==
    \A p \in Procs :
       (ValidatorReturned(p)
          /\ (Len(Trimmed(in[p].domain)) = 0 \/ Len(Trimmed(in[p].domain)) > 255)) =>
          ~ret[p].valid

\* 256 letters: rejected.
C11_Witness ==
    \E p \in Procs :
       /\ ValidatorReturned(p)
       /\ in[p].domain = Fill("a", 256)
       /\ ~ret[p].valid

\* C12: isValidDomain agrees with the reference definition on every input;
\* so every input that itself starts or ends with '-', '_' or '.', and
\* every input with a forbidden character anywhere, is rejected.
C12_Reference ==
    \A p \in Procs :
       ValidatorReturned(p) =>
          LET h == in[p].domain IN
          /\ ret[p].valid = ReferenceValid(h)
          /\ (Len(h) > 0 /\ (h[1] \in EdgeChars \/ h[Len(h)] \in EdgeChars)) =>
                ~ret[p].valid
          /\ (\E i \in 1..Len(h) : h[i] \in ForbiddenChars) => ~ret[p].valid

\* A forbidden character in the middle of the host.
C12_Witness ==
    \E p \in Procs :
       /\ ValidatorReturned(p)
       /\ in[p].domain = <<"a", "!", "a">>
       /\ ~ret[p].valid

ValidInputs(p) ==
    /\ isValidDomain(in[p].domain)
    /\ \A k \in 1..Len(in[p].subDomains) : isValidDomain(in[p].subDomains[k])

\* C18: for a valid primary and valid subdomains, every name of the Domain
\* Set submitted to the CA satisfies isValidDomain.
C18_ValidityPreserved ==
    \A p \in Procs : \A i \in 1..Len(calls[p]) :
       (calls[p][i].op = "ObtainCertificate" /\ ValidInputs(p)) =>
          \A d \in 1..Len(calls[p][i].domains) :
             isValidDomain(calls[p][i].domains[d])

(***************************************************************************)
(* Properties of the directory                                             *)
(***************************************************************************)
\* C13: isCertAvailable returns true exactly when public.crt and
\* private.key both exist in the directory, in every state of the directory
\* that calls of saveCerts, failed ones included, leave; neither the
\* presence of certs.json nor what the files hold matters.
C13_Availability ==
    (pc[1] = "ret" /\ in[1].op = "isCertAvailable") =>
       ret[1].avail = (dir.crt # NoFile /\ dir.key # NoFile)

\* Available with a truncated certificate and no certs.json.
C13_Witness ==
    /\ pc[1] = "ret" /\ in[1].op = "isCertAvailable"
    /\ ret[1].avail
    /\ dir.crt = Partial
    /\ dir.json = NoFile

\* C17: renewCerts refuses exactly when the hours to expiry, divided by 24
\* and truncated toward zero, exceed 45: at 46 whole days or more it is
\* refused, between 45 and 46 days it goes on, and so does an expired
\* certificate.
C17_GateBoundary ==
    (in[1].op = "renewCerts" /\ pc[1] \notin {"renew_load", "renew_gate"}
        /\ loc[1].certBytes[1] = "pem") =>
       LET hours == loc[1].certBytes[2]
           refused == pc[1] = "ret" /\ ret[1].err.kind = "notyet"
       IN  /\ refused = (hours >= 46 * 24)
           /\ (45 * 24 <= hours /\ hours < 46 * 24) => ~refused
           /\ hours < 0 => ~refused
           /\ refused => ret[1].err.days * 24 <= hours /\ hours < (ret[1].err.days + 1) * 24

\* 45 days and 12 hours left: past the gate, at key generation or beyond.
C17_Witness ==
    /\ in[1].op = "renewCerts"
    /\ loc[1].certBytes = Pem(1092)
    /\ loc[1].expTimeDays = 45
    /\ pc[1] = "renew_client"

\* C19: from an empty directory, whatever calls of saveCerts run, interleave
\* and fail, certs.json exists only if public.crt and private.key exist.
C19_JSONLast ==
    dir.json # NoFile => (dir.crt # NoFile /\ dir.key # NoFile)

\* The converse fails: both files written and certs.json not yet there.
C19_Witness ==
    /\ dir.crt # NoFile /\ dir.key # NoFile /\ dir.json = NoFile
    /\ \A p \in Procs : pc[p] = "ret" /\ in[p].op = "saveCerts"

(***************************************************************************)
(* genCerts, renewCerts and saveCerts on one directory                     *)
(***************************************************************************)
\* One caller that issues, renews and saves.
NextDir ==
    \/ GenCallOf(1, {Str_example_com}, ListsUpTo({Str_www}, 1))
    \/ GenKey(1)
    \/ GenNewClient(1)
    \/ GenRegister(1)
    \/ GenAgree(1)
    \/ GenObtain(1)
    \/ RenewCall(1)
    \/ RenewLoadCert(1)
    \/ RenewGate(1)
    \/ RenewKey(1)
    \/ RenewNewClient(1)
    \/ RenewLoadMeta(1)
    \/ RenewRequest(1)
    \/ SaveCall(1, TwoResources)
    \/ SaveCrt(1)
    \/ SaveKey(1)
    \/ SaveJSON(1)
    \/ Done(1)

SpecDir == Init /\ [][NextDir]_vars

\* C14: no step of genCerts or of renewCerts, from the call to the return on
\* any path, changes the directory.
C14_DirUntouched ==
    [][in'[1].op \in {"genCerts", "renewCerts"} => dir' = dir]_vars

\* renewCerts has returned a new resource and the directory still holds the
\* old certificate.
C14_Witness ==
    /\ pc[1] = "ret" /\ in[1].op = "renewCerts"
    /\ ret[1].err = Nil
    /\ dir.crt = Pem(240)
    /\ ret[1].res.Certificate # dir.crt

\* C15: RenewCertificate is invoked only when public.crt and certs.json have
\* both been loaded; when either is missing or certs.json is not valid JSON,
\* renewCerts returns an error and RenewCertificate is not invoked; an error
\* of RenewCertificate is returned as it is, with an empty resource.
C15_LoadBeforeRenew ==
    LET crtLoads == dir.crt # NoFile
        metaLoads == dir.json[1] = "json"
        requested == "RenewCertificate" \in Ops(calls[1])
    IN  in[1].op = "renewCerts" =>
           /\ requested => crtLoads /\ metaLoads
           /\ (pc[1] = "ret" /\ ~(crtLoads /\ metaLoads)) =>
                 ret[1].err # Nil /\ ret[1].res = EmptyRes /\ ~requested
           /\ (pc[1] = "ret" /\ ~crtLoads) => ret[1].err = Err("notexist")
           /\ (requested /\ ~Last(calls[1]).ok) =>
                 /\ pc[1] = "ret"
                 /\ ret[1].err = Err("renew")
                 /\ ret[1].res = EmptyRes

\* RenewCertificate was invoked and failed.
C15_Witness ==
    /\ pc[1] = "ret" /\ in[1].op = "renewCerts"
    /\ "RenewCertificate" \in Ops(calls[1])
    /\ ~Last(calls[1]).ok
    /\ ret[1].err = Err("renew")

\* C16: the reference handed to RenewCertificate carries the bytes read from
\* public.crt at the first step of the call, whatever certs.json carries and
\* whatever a concurrent saveCerts has written to public.crt since.
C16_Step(p) ==
    /\ (pc[p] = "renew_load" /\ pc'[p] = "renew_gate") => loc'[p].certBytes = dir.crt
    /\ (in[p].op = "renewCerts" /\ pc[p] \notin {"renew_load", "ret"}) =>
          loc'[p].certBytes = loc[p].certBytes
    /\ (pc[p] = "renew_request" /\ pc'[p] = "ret") =>
          /\ Last(calls'[p]).op = "RenewCertificate"
          /\ Last(calls'[p]).ref.Certificate = loc[p].certBytes
          /\ Last(calls'[p]).ref.meta = loc[p].certMeta.meta

C16_ReferenceBytes == [][\A p \in Procs : C16_Step(p)]_vars

\* The reference carries the old certificate after the other process has
\* replaced public.crt and certs.json.
C16_Witness ==
    \E p \in Procs :
       /\ pc[p] = "ret" /\ in[p].op = "renewCerts"
       /\ calls[p] # <<>>
       /\ Last(calls[p]).op = "RenewCertificate"
       /\ Last(calls[p]).ref.Certificate = Pem(240)
       /\ dir.crt = Pem(2400)
       /\ bytesInJSON
       /\ loadCertMeta(dir).res.Certificate = Pem(2400)

====
